---- MODULE Spec2Model ----
(***************************************************************************)
(* OSI-SAF low-resolution sea-ice drift reader (icedrift_lr.py):           *)
(* construct_filename, extract_data_from_ds, estimate_velocity,            *)
(* open_remote_file and open_local_file.                                   *)
(*                                                                         *)
(* Dates are records [year, month, day]; date +/- timedelta(days = 1) is   *)
(* computed through proleptic-Gregorian ordinals, as datetime does.        *)
(* Floating-point values are exact rationals plus NaN.  Strings are TLA+   *)
(* strings, built by concatenation as the f-strings build them.            *)
(***************************************************************************)
EXTENDS Integers, Sequences, FiniteSets, TLC

VARIABLES date, ds, op, file, url, files, handle, log, data, result

vars == <<date, ds, op, file, url, files, handle, log, data, result>>

(***************************************************************************)
(* Bounds of the model.                                                    *)
(***************************************************************************)
\* number of consecutive years, from 2024 on, whose every day is a requested date
NumYears == 2
\* number of grid columns (length of xc)
NX == 1

\* years whose every day is a requested date: the century years 1900 (not leap)
\* and 2000 (leap), and NumYears years from the leap year 2024 on
Years == {1900, 2000} \cup (2024 .. (2024 + NumYears - 1))

(***************************************************************************)
(* Calendar: datetime's date arithmetic.                                   *)
(***************************************************************************)
IsLeap(y) == (y % 4 = 0) /\ ((y % 100 # 0) \/ (y % 400 = 0))

DaysInMonthTable == <<31, 28, 31, 30, 31, 30, 31, 31, 30, 31, 30, 31>>

DaysInMonth(y, m) == IF m = 2 /\ IsLeap(y) THEN 29 ELSE DaysInMonthTable[m]

\* number of days before January 1st of year y
DaysBeforeYear(y) ==
    LET p == y - 1 IN p * 365 + (p \div 4) - (p \div 100) + (p \div 400)

RECURSIVE DaysBeforeMonth(_, _)
\* number of days in year y preceding the first day of month m
DaysBeforeMonth(y, m) ==
    IF m = 1 THEN 0 ELSE DaysBeforeMonth(y, m - 1) + DaysInMonth(y, m - 1)

\* date.toordinal(): 0001-01-01 is day 1
ToOrdinal(d) == DaysBeforeYear(d.year) + DaysBeforeMonth(d.year, d.month) + d.day

RECURSIVE YearOfOrdinal(_, _)
\* the year containing ordinal n, searching upward from year y
YearOfOrdinal(n, y) ==
    IF n <= DaysBeforeYear(y + 1) THEN y ELSE YearOfOrdinal(n, y + 1)

RECURSIVE MonthOfDay(_, _, _)
\* the month of year y containing its k-th day (k >= 1), searching from m
MonthOfDay(y, k, m) ==
    IF k <= DaysBeforeMonth(y, m) + DaysInMonth(y, m) THEN m
    ELSE MonthOfDay(y, k, m + 1)

\* date.fromordinal(n)
FromOrdinal(n) ==
    LET y == YearOfOrdinal(n, (n \div 366) + 1)
        k == n - DaysBeforeYear(y)
        m == MonthOfDay(y, k, 1)
    IN  [year |-> y, month |-> m, day |-> k - DaysBeforeMonth(y, m)]

\* date + timedelta(days = k)
AddDays(d, k) == FromOrdinal(ToOrdinal(d) + k)

(***************************************************************************)
(* Formatting: strftime and zfill.                                         *)
(***************************************************************************)
Digit == <<"0", "1", "2", "3", "4", "5", "6", "7", "8", "9">>

RECURSIVE Decimal(_)
\* str(n) for n >= 0
Decimal(n) == IF n < 10 THEN Digit[n + 1]
              ELSE Decimal(n \div 10) \o Digit[(n % 10) + 1]

RECURSIVE ZFill(_, _)
\* s.zfill(w): pad with zeros on the left up to width w
ZFill(s, w) == IF Len(s) >= w THEN s ELSE ZFill("0" \o s, w)

\* d.strftime('%Y%m%d1200')
Strftime1200(d) ==
    ZFill(Decimal(d.year), 4) \o ZFill(Decimal(d.month), 2)
        \o ZFill(Decimal(d.day), 2) \o "1200"

(***************************************************************************)
(* Locator: construct_filename, the remote catalog url, the local path.    *)
(***************************************************************************)
\* every requested date: each day of each year of Years
Dates ==
    { d \in [year : Years, month : 1..12, day : 1..31] :
        d.day <= DaysInMonth(d.year, d.month) }

FilePrefix == "ice_drift_nh_polstere-625_multi-oi_"

\* construct_filename with the later stamp taken from the requested date itself
construct_filename_same_day(d) ==
    LET before == AddDays(d, -1)
    IN  FilePrefix \o Strftime1200(before) \o "-" \o Strftime1200(d) \o ".nc"

construct_filename(d) ==
    LET before == AddDays(d, -1)
        after  == AddDays(d, 1)
    IN  FilePrefix \o Strftime1200(before) \o "-" \o Strftime1200(after) \o ".nc"

CatalogRoot ==
    "https://thredds.met.no/thredds/catalog/osisaf/met.no/ice/drift_lr/merged"

\* the catalog year and month without the new-year's-eve branch
catalog_year_month_no_eve(d) == <<d.year, d.month>>

\* <<Y, m>> of open_remote_file: the requested date's own year and month,
\* except on December 31, when it is January of the next year
catalog_year_month(d) ==
    IF (d.month = 12) /\ (d.day = 31) THEN <<d.year + 1, 1>>
    ELSE <<d.year, d.month>>

\* catalog_url of open_remote_file
catalog_url(d) ==
    LET Ym == catalog_year_month(d)
    IN  CatalogRoot \o "/" \o Decimal(Ym[1]) \o "/"
            \o ZFill(Decimal(Ym[2]), 2) \o "/catalog.xml"

\* file of open_local_file: the path below main_path
local_file(d) ==
    LET after == AddDays(d, 1)
        year  == after.year
        month == ZFill(Decimal(after.month), 2)
    IN  Decimal(year) \o "/" \o month \o "/" \o construct_filename(d)

(***************************************************************************)
(* State.                                                                  *)
(*   date    the requested date                                            *)
(*   ds      the dataset stored for that date                              *)
(*   op      the operation that has run ("none" before any)                *)
(*   file    the filename the operation resolved                           *)
(*   url     the catalog url or local path the operation resolved          *)
(*   files   the names the catalog lists (remote), or the paths that exist  *)
(*           below main_path (local)                                       *)
(*   handle  the dataset handle: "none", "open" or "closed"                *)
(*   log     the effects of the operation, in program order                *)
(*   data    the dictionary the operation built                            *)
(*   result  how the call ended: "pending", "data", "None" or "raised"     *)
(***************************************************************************)
NoDs == [present |-> FALSE]
NoData == [none |-> TRUE]

InitLocator ==
    /\ date \in Dates
    /\ ds = NoDs
    /\ op = "none"
    /\ file = ""
    /\ url = ""
    /\ files = {}
    /\ handle = "none"
    /\ log = <<>>
    /\ data = NoData
    /\ result = "pending"

\* construct_filename(date)
CallConstructFilename ==
    /\ op = "none"
    /\ op' = "construct_filename"
    /\ file' = construct_filename(date)
    /\ UNCHANGED <<date, ds, url, files, handle, log, data, result>>

\* open_remote_file(date), up to the catalog url
BuildCatalogUrl ==
    /\ op = "none"
    /\ op' = "catalog_url"
    /\ url' = catalog_url(date)
    /\ file' = construct_filename(date)
    /\ UNCHANGED <<date, ds, files, handle, log, data, result>>

\* open_local_file(date), up to the path of the file
BuildLocalFile ==
    /\ op = "none"
    /\ op' = "local_file"
    /\ url' = local_file(date)
    /\ file' = construct_filename(date)
    /\ UNCHANGED <<date, ds, files, handle, log, data, result>>

NextLocator == CallConstructFilename \/ BuildCatalogUrl \/ BuildLocalFile

SpecLocator == InitLocator /\ [][NextLocator]_vars

(***************************************************************************)
(* The calendar and the stamps as the claims state them, independently of  *)
(* the ordinal arithmetic and of the digit-by-digit formatting above.      *)
(***************************************************************************)
LeapYear(y) == (y % 400 = 0) \/ ((y % 4 = 0) /\ (y % 100 # 0))

LastDayOf(y, m) ==
    CASE m \in {4, 6, 9, 11} -> 30
      [] m = 2 -> (IF LeapYear(y) THEN 29 ELSE 28)
      [] OTHER -> 31

\* the calendar day after d
Tomorrow(d) ==
    IF d.day < LastDayOf(d.year, d.month)
    THEN [year |-> d.year, month |-> d.month, day |-> d.day + 1]
    ELSE IF d.month < 12
         THEN [year |-> d.year, month |-> d.month + 1, day |-> 1]
         ELSE [year |-> d.year + 1, month |-> 1, day |-> 1]

\* the calendar day before d
Yesterday(d) ==
    IF d.day > 1
    THEN [year |-> d.year, month |-> d.month, day |-> d.day - 1]
    ELSE IF d.month > 1
         THEN [year |-> d.year, month |-> d.month - 1,
               day |-> LastDayOf(d.year, d.month - 1)]
         ELSE [year |-> d.year - 1, month |-> 12, day |-> 31]

TwoDigits ==
    <<
      "00", "01", "02", "03", "04", "05", "06", "07", "08", "09",
      "10", "11", "12", "13", "14", "15", "16", "17", "18", "19",
      "20", "21", "22", "23", "24", "25", "26", "27", "28", "29",
      "30", "31", "32", "33", "34", "35", "36", "37", "38", "39",
      "40", "41", "42", "43", "44", "45", "46", "47", "48", "49",
      "50", "51", "52", "53", "54", "55", "56", "57", "58", "59",
      "60", "61", "62", "63", "64", "65", "66", "67", "68", "69",
      "70", "71", "72", "73", "74", "75", "76", "77", "78", "79",
      "80", "81", "82", "83", "84", "85", "86", "87", "88", "89",
      "90", "91", "92", "93", "94", "95", "96", "97", "98", "99"
    >>

\* the two-digit numeral of n, 0 <= n <= 99
Two(n) == TwoDigits[n + 1]

\* %Y%m%d of d (years 1000..9999) followed by the literal 1200
Stamp(d) ==
    Two(d.year \div 100) \o Two(d.year % 100) \o Two(d.month) \o Two(d.day)
        \o "1200"

\* C1: for every date D, construct_filename(D) is exactly
\* ice_drift_nh_polstere-625_multi-oi_<B>-<A>.nc with B = D - 1 day and
\* A = D + 1 day, each as %Y%m%d followed by 1200
C1_Filename ==
    op = "construct_filename" =>
        file = "ice_drift_nh_polstere-625_multi-oi_" \o Stamp(Yesterday(date))
                   \o "-" \o Stamp(Tomorrow(date)) \o ".nc"

\* a filename was built for a leap day, for a month's first or last day, or
\* for the first or last day of a year
C1_Witness ==
    /\ op = "construct_filename"
    /\ file # ""
    /\ \/ date.month = 2 /\ date.day \in {28, 29} /\ date.year = 2024
       \/ date.month = 3 /\ date.day = 1 /\ date.year \in {1900, 2000}
       \/ date.month = 12 /\ date.day = 31
       \/ date.month = 1 /\ date.day = 1

\* C2: for every date D, the catalog url of open_remote_file is
\* <root>/<year>/<month-2digit>/catalog.xml with the year and month of D + 1
C2_CatalogOfLaterDate ==
    op = "catalog_url" =>
        url = CatalogRoot \o "/" \o Two(Tomorrow(date).year \div 100)
                  \o Two(Tomorrow(date).year % 100) \o "/"
                  \o Two(Tomorrow(date).month) \o "/catalog.xml"

\* C3: on December 31 of year Y the catalog searched is Y+1/01; on every
\* other date the year searched is the requested date's own year
C3_NewYearsEve ==
    op = "catalog_url" =>
        IF date.month = 12 /\ date.day = 31
        THEN url = CatalogRoot \o "/" \o Two((date.year + 1) \div 100)
                       \o Two((date.year + 1) % 100) \o "/01/catalog.xml"
        ELSE \E m \in 1..12 :
                url = CatalogRoot \o "/" \o Two(date.year \div 100)
                          \o Two(date.year % 100) \o "/" \o Two(m)
                          \o "/catalog.xml"

\* the catalog url was built for a December 31
C3_Witness ==
    /\ op = "catalog_url"
    /\ date.month = 12 /\ date.day = 31
    /\ url # ""

(***************************************************************************)
(* Floating-point values: NaN, or the rational n/d in lowest terms, d > 0. *)
(***************************************************************************)
NaN == [nan |-> TRUE, n |-> 0, d |-> 1]

Abs(k) == IF k < 0 THEN -k ELSE k

RECURSIVE GCD(_, _)
GCD(a, b) == IF b = 0 THEN a ELSE GCD(b, a % b)

\* the float n/d, d # 0
Fl(n, d) ==
    LET g == GCD(Abs(n), Abs(d))
        s == IF d < 0 THEN -1 ELSE 1
    IN  [nan |-> FALSE, n |-> (s * n) \div g, d |-> (s * d) \div g]

\* the float of the integer k
F(k) == Fl(k, 1)

\* np.isnan
IsNaN(a) == a.nan

\* a + b
FAdd(a, b) == IF a.nan \/ b.nan THEN NaN
              ELSE Fl(a.n * b.d + b.n * a.d, a.d * b.d)

\* a * b
FMul(a, b) == IF a.nan \/ b.nan THEN NaN ELSE Fl(a.n * b.n, a.d * b.d)

\* a / b, for b # 0 (every time_bnds drawn has t0 < t1)
FDiv(a, b) == IF a.nan \/ b.nan THEN NaN ELSE Fl(a.n * b.d, a.d * b.n)

(***************************************************************************)
(* Quantities (pint): a magnitude, scalar or array, and a unit.            *)
(***************************************************************************)
SecondsPerDay == 86400
CmPerM == 100
MPerKm == 1000

Quantity(mag, unit) == [mag |-> mag, unit |-> unit]

\* the factor of .to('m') from a length unit
MetresPer(unit) == IF unit = "km" THEN F(MPerKm) ELSE F(1)

\* (values * units(unit)).to('m'), elementwise over an array
ToMetres(values, unit) ==
    Quantity([c \in DOMAIN values |-> FMul(values[c], MetresPer(unit))], "m")

\* q.to('cm/s') for an array q in m/day
ToCmPerS(q) ==
    Quantity([c \in DOMAIN q.mag |-> FMul(q.mag[c], Fl(CmPerM, SecondsPerDay))],
             "cm/s")

\* a + b, elementwise, for arrays in the same unit
QAdd(a, b) == Quantity([c \in DOMAIN a.mag |-> FAdd(a.mag[c], b.mag[c])], a.unit)

\* a / k, elementwise, for a plain number k
QDivNum(a, k) == Quantity([c \in DOMAIN a.mag |-> FDiv(a.mag[c], k)], a.unit)

(***************************************************************************)
(* Datasets: the variables of a product file that the reader uses.         *)
(***************************************************************************)
Rows == {1, 2}
Cols == 1..NX
Cells == Rows \X Cols

\* values a dX cell can hold, in the units of the file
DXValues == {NaN, F(100), F(3)}
\* values a dY cell can hold (the legacy field)
DYValues == {NaN, F(-100)}
\* values a dY_v1p4 cell can hold (the corrected field)
DYv1p4Values == {NaN, F(100)}
LengthUnits == {"km", "m"}
\* time_bnds[0] = [t0, t1], in seconds: two days apart, and a day and a half
TimeBounds == {<<0, 2 * SecondsPerDay>>, <<SecondsPerDay \div 2, 2 * SecondsPerDay>>}

Datasets ==
    [ present   : {TRUE},
      xc        : {[j \in Cols |-> F(10 * j)]},
      yc        : {[i \in Rows |-> F(-20 * i)]},
      dX        : [Cells -> DXValues],
      dY        : [Cells -> DYValues],
      variables : {{"dX", "dY"}},
      dY_v1p4   : {[c \in Cells |-> NaN]},
      units     : [xc : {"km"}, yc : {"km"}, dX : LengthUnits, dY : LengthUnits],
      time_bnds : TimeBounds ]
    \cup
    [ present   : {TRUE},
      xc        : {[j \in Cols |-> F(10 * j)]},
      yc        : {[i \in Rows |-> F(-20 * i)]},
      dX        : [Cells -> DXValues],
      dY        : [Cells -> DYValues],
      variables : {{"dX", "dY", "dY_v1p4"}},
      dY_v1p4   : [Cells -> DYv1p4Values],
      units     : [xc : {"km"}, yc : {"km"}, dX : LengthUnits, dY : LengthUnits],
      time_bnds : TimeBounds ]

(***************************************************************************)
(* extract_data_from_ds.  The keys proj, lat0, lon0, lat1 and lon1 are     *)
(* copied from the dataset and used by nothing below; they are left out.   *)
(***************************************************************************)
\* np.meshgrid(x0, y0): xx0[i, j] = x0[j] and yy0[i, j] = y0[i]
MeshX(x0) == Quantity([c \in Cells |-> x0.mag[c[2]]], x0.unit)
MeshY(y0) == Quantity([c \in Cells |-> y0.mag[c[1]]], y0.unit)

\* data['dy'] read from the legacy field whether or not dY_v1p4 is there
extract_dy_legacy(d) == ToMetres(d.dY, d.units.dY)

\* data['dy']: from dY_v1p4 when the dataset has that variable, else from dY;
\* the unit is that of dY in both branches
extract_dy(d) ==
    IF "dY_v1p4" \in d.variables
    THEN ToMetres(d.dY_v1p4, d.units.dY)
    ELSE ToMetres(d.dY, d.units.dY)

extract_data_from_ds(d) ==
    LET x0 == ToMetres(d.xc, d.units.xc)
        y0 == ToMetres(d.yc, d.units.yc)
    IN  [ ds    |-> d,
          x0    |-> x0,
          y0    |-> y0,
          xx0   |-> MeshX(x0),
          yy0   |-> MeshY(y0),
          dx    |-> ToMetres(d.dX, d.units.dX),
          dy    |-> extract_dy(d),
          time0 |-> d.time_bnds[1],
          time1 |-> d.time_bnds[2] ]

(***************************************************************************)
(* estimate_velocity.                                                      *)
(***************************************************************************)
\* dX[np.isnan(dX)] = 0 * units('m')
ZeroNaN(q) ==
    Quantity([c \in DOMAIN q.mag |-> IF IsNaN(q.mag[c]) THEN F(0) ELSE q.mag[c]],
             q.unit)

\* the derived keys, from the displacements dx, dy as they stand after the
\* NaN assignment and from the arrays dX, dY that the assignment wrote to
Derived(dat, dx, dy, dX, dY) ==
    LET delta_t == Quantity(Fl(dat.time1 - dat.time0, SecondsPerDay), "day")
    IN  [ dx      |-> dx,
          dy      |-> dy,
          xmid    |-> QAdd(dat.xx0, QDivNum(dX, F(2))),
          ymid    |-> QAdd(dat.yy0, QDivNum(dY, F(2))),
          timemid |-> dat.time0 + ((dat.time1 - dat.time0) \div 2),
          x1      |-> QAdd(dat.xx0, dx),
          y1      |-> QAdd(dat.yy0, dy),
          dt      |-> delta_t,
          u       |-> ToCmPerS(QDivNum(dx, delta_t.mag)),
          v       |-> ToCmPerS(QDivNum(dy, delta_t.mag)) ]

\* estimate_velocity with dX, dY bound to data['dx'], data['dy'] themselves
\* (no np.copy): the NaN assignment writes through to the dictionary
estimate_velocity_aliased(dat) ==
    Derived(dat, ZeroNaN(dat.dx), ZeroNaN(dat.dy),
            ZeroNaN(dat.dx), ZeroNaN(dat.dy)) @@ dat

\* estimate_velocity without the NaN assignment
estimate_velocity_nan_kept(dat) ==
    Derived(dat, dat.dx, dat.dy, dat.dx, dat.dy) @@ dat

\* estimate_velocity with the velocity left in m/day
estimate_velocity_per_day(dat) ==
    [Derived(dat, dat.dx, dat.dy, ZeroNaN(dat.dx), ZeroNaN(dat.dy))
        EXCEPT !.u = QDivNum(dat.dx, Fl(dat.time1 - dat.time0, SecondsPerDay)),
               !.v = QDivNum(dat.dy, Fl(dat.time1 - dat.time0, SecondsPerDay))]
        @@ dat

\* estimate_velocity: dX, dY are copies, so data['dx'], data['dy'] stay as read
estimate_velocity(dat) ==
    Derived(dat, dat.dx, dat.dy, ZeroNaN(dat.dx), ZeroNaN(dat.dy)) @@ dat

InitDerive ==
    /\ date \in {[year |-> 2024, month |-> 12, day |-> 31]}
    /\ ds \in Datasets
    /\ op = "none"
    /\ file = ""
    /\ url = ""
    /\ files = {}
    /\ handle = "none"
    /\ log = <<>>
    /\ data = NoData
    /\ result = "pending"

\* data = extract_data_from_ds(ds)
CallExtract ==
    /\ op = "none"
    /\ op' = "extract_data_from_ds"
    /\ data' = extract_data_from_ds(ds)
    /\ UNCHANGED <<date, ds, file, url, files, handle, log, result>>

\* data = estimate_velocity(data)
CallEstimate ==
    /\ op = "extract_data_from_ds"
    /\ op' = "estimate_velocity"
    /\ data' = estimate_velocity(data)
    /\ UNCHANGED <<date, ds, file, url, files, handle, log, result>>

NextDerive == CallExtract \/ CallEstimate

SpecDerive == InitDerive /\ [][NextDerive]_vars

(***************************************************************************)
(* Claims about extract_data_from_ds and estimate_velocity (SpecDerive).   *)
(***************************************************************************)
\* a <= b for floats that are not NaN
FLeq(a, b) == a.n * b.d <= b.n * a.d

\* the value v of a file variable in unit, in metres
InMetres(v, unit) == IF unit = "km" THEN FMul(v, F(1000)) ELSE v

\* elapsed seconds between the time bounds of the dataset
ElapsedSeconds == ds.time_bnds[2] - ds.time_bnds[1]

\* C7: at every cell whose x (resp. y) displacement is missing the midpoint
\* equals the initial position; at every cell with a present displacement d
\* it is the initial position plus d/2 (stated as 2*mid = 2*initial + d)
C7_Midpoint ==
    op = "estimate_velocity" =>
        \A c \in Cells :
            /\ IF IsNaN(ds.dX[c])
               THEN data.xmid.mag[c] = data.xx0.mag[c]
               ELSE /\ ~IsNaN(data.xmid.mag[c])
                    /\ FAdd(data.xmid.mag[c], data.xmid.mag[c])
                         = FAdd(FAdd(data.xx0.mag[c], data.xx0.mag[c]),
                                InMetres(ds.dX[c], ds.units.dX))
            /\ IF IsNaN(data.dy.mag[c])
               THEN data.ymid.mag[c] = data.yy0.mag[c]
               ELSE /\ ~IsNaN(data.ymid.mag[c])
                    /\ FAdd(data.ymid.mag[c], data.ymid.mag[c])
                         = FAdd(FAdd(data.yy0.mag[c], data.yy0.mag[c]),
                                data.dy.mag[c])
            /\ data.xx0.mag[c] = InMetres(ds.xc[c[2]], ds.units.xc)
            /\ data.yy0.mag[c] = InMetres(ds.yc[c[1]], ds.units.yc)

\* the midpoints were derived from a field with a missing and a present x
\* displacement and a missing y displacement
C7_Witness ==
    /\ op = "estimate_velocity"
    /\ \E c \in Cells : IsNaN(ds.dX[c]) /\ data.xmid.mag[c] = data.xx0.mag[c]
    /\ \E c \in Cells : ~IsNaN(ds.dX[c]) /\ data.xmid.mag[c] # data.xx0.mag[c]
    /\ \E c \in Cells : IsNaN(data.dy.mag[c]) /\ data.ymid.mag[c] = data.yy0.mag[c]

\* C8 as stated: u = dx / elapsed and v = dy / elapsed in cm/s, such that
\* 100,000 m over 2 days gives about 0.5787 cm/s (within 0.00005)
C8_AsStated ==
    op = "estimate_velocity" =>
        \A c \in Cells :
            (data.dx.mag[c] = F(100000) /\ ElapsedSeconds = 2 * SecondsPerDay)
                => /\ ~IsNaN(data.u.mag[c])
                   /\ FLeq(Fl(57865, 100000), data.u.mag[c])
                   /\ FLeq(data.u.mag[c], Fl(57875, 100000))

\* C8 amended: elapsed is (time1 - time0) in days; u and v are dx and dy
\* over elapsed in cm/s, i.e. u * elapsed-seconds = 100 * dx-in-metres
\* (NaN where the displacement is NaN); 100,000 m over 2 days gives about
\* 57.87 cm/s (within 0.005)
C8_Velocity ==
    op = "estimate_velocity" =>
        /\ data.dt.unit = "day"
        /\ FMul(data.dt.mag, F(SecondsPerDay)) = F(ElapsedSeconds)
        /\ data.u.unit = "cm/s" /\ data.v.unit = "cm/s"
        /\ \A c \in Cells :
            /\ IsNaN(data.u.mag[c]) <=> IsNaN(data.dx.mag[c])
            /\ IsNaN(data.v.mag[c]) <=> IsNaN(data.dy.mag[c])
            /\ FMul(data.u.mag[c], F(ElapsedSeconds))
                 = FMul(data.dx.mag[c], F(100))
            /\ FMul(data.v.mag[c], F(ElapsedSeconds))
                 = FMul(data.dy.mag[c], F(100))
            /\ (data.dx.mag[c] = F(100000) /\ ElapsedSeconds = 2 * SecondsPerDay)
                 => /\ FLeq(Fl(57865, 1000), data.u.mag[c])
                    /\ FLeq(data.u.mag[c], Fl(57875, 1000))

\* a velocity was derived from a displacement of 100,000 m over 2 days
C8_Witness ==
    /\ op = "estimate_velocity"
    /\ ElapsedSeconds = 2 * SecondsPerDay
    /\ \E c \in Cells : data.dx.mag[c] = F(100000) /\ ~IsNaN(data.u.mag[c])

\* C9: 'dy' holds the values of dY_v1p4 whenever the dataset has that
\* variable, whatever dY holds, and those of dY only when it has not; 'dx'
\* holds those of dX in both cases (all in metres)
C9_PreferCorrected ==
    op = "extract_data_from_ds" =>
        \A c \in Cells :
            /\ data.dy.mag[c] =
                 IF "dY_v1p4" \in ds.variables
                 THEN InMetres(ds.dY_v1p4[c], ds.units.dY)
                 ELSE InMetres(ds.dY[c], ds.units.dY)
            /\ data.dx.mag[c] = InMetres(ds.dX[c], ds.units.dX)

\* fields were extracted from a dataset that has dY_v1p4, with values that
\* differ from those of dY
C9_Witness ==
    /\ op = "extract_data_from_ds"
    /\ "dY_v1p4" \in ds.variables
    /\ \E c \in Cells :
          /\ ds.dY_v1p4[c] # ds.dY[c]
          /\ ~IsNaN(ds.dY_v1p4[c])
          /\ data.dy.mag[c] = InMetres(ds.dY_v1p4[c], ds.units.dY)

\* C10: estimate_velocity leaves data['dx'] and data['dy'] as they were, and
\* at every cell whose displacement is missing the final position and the
\* velocity are missing too
C10_FrameOfZeroing ==
    [][ op' = "estimate_velocity" =>
          /\ data'.dx = data.dx
          /\ data'.dy = data.dy
          /\ \A c \in Cells :
                /\ IsNaN(data.dx.mag[c])
                     => IsNaN(data'.x1.mag[c]) /\ IsNaN(data'.u.mag[c])
                /\ IsNaN(data.dy.mag[c])
                     => IsNaN(data'.y1.mag[c]) /\ IsNaN(data'.v.mag[c])
                /\ ~IsNaN(data.dx.mag[c])
                     => data'.x1.mag[c] = FAdd(data.xx0.mag[c], data.dx.mag[c])
                /\ ~IsNaN(data.dy.mag[c])
                     => data'.y1.mag[c] = FAdd(data.yy0.mag[c], data.dy.mag[c]) ]_vars

\* velocities were derived from displacements missing at some cell, and
\* the displacement, final position and velocity are missing there
C10_Witness ==
    /\ op = "estimate_velocity"
    /\ \E c \in Cells :
          /\ IsNaN(ds.dX[c]) /\ IsNaN(data.dx.mag[c])
          /\ IsNaN(data.x1.mag[c]) /\ IsNaN(data.u.mag[c])
          /\ data.xmid.mag[c] = data.xx0.mag[c]
    /\ \E c \in Cells :
          /\ IsNaN(data.dy.mag[c])
          /\ IsNaN(data.y1.mag[c]) /\ IsNaN(data.v.mag[c])

(***************************************************************************)
(* open_remote_file and open_local_file.  Each call is one step; log holds *)
(* what the call did, in program order:                                    *)
(*   "catalog"      the catalog at catalog_url was fetched                 *)
(*   "warn"         the not-in-file-list warning was printed               *)
(*   "open"         the dataset was opened                                 *)
(*   "open_failed"  opening the dataset raised                             *)
(*   "diag"         the not-found diagnostic was printed                   *)
(*   "close"        ds.close() was called                                  *)
(*   "extract"      extract_data_from_ds read the fields                   *)
(*   "estimate"     estimate_velocity ran                                  *)
(*   "strip"        the units were removed                                 *)
(*   "raise"        an exception left the call                             *)
(***************************************************************************)
KeptWithUnits == {"proj", "ds", "time0", "time1", "timemid"}

\* data[key] = data[key].magnitude for every key outside KeptWithUnits
StripUnits(dat) ==
    [k \in DOMAIN dat |-> IF k \in KeptWithUnits THEN dat[k] ELSE dat[k].mag]

\* the tail shared by both calls: extract, estimate, strip unless include_units
Process(dsv, include_units) ==
    LET dat == estimate_velocity(extract_data_from_ds(dsv))
    IN  IF include_units
        THEN [log |-> <<"extract", "estimate">>, data |-> dat]
        ELSE [log |-> <<"extract", "estimate", "strip">>, data |-> StripUnits(dat)]

\* open_remote_file returning None after the warning
remote_outcome_returns_none(d, fs, dsv, include_units) ==
    LET desired_file == construct_filename(d)
    IN  IF desired_file \notin fs
        THEN [ file |-> desired_file, url |-> catalog_url(d),
               log |-> <<"catalog", "warn">>, handle |-> "none",
               data |-> NoData, result |-> "None" ]
        ELSE LET p == Process(dsv, include_units)
             IN  [ file |-> desired_file, url |-> catalog_url(d),
                   log |-> <<"catalog", "open">> \o p.log, handle |-> "open",
                   data |-> p.data, result |-> "data" ]

\* open_remote_file(d, include_units) against a catalog listing fs, where
\* the file, if listed, holds dsv.  On a miss only the warning runs, so
\* download_file is an unassigned local when line 188 reads it: the read
\* raises UnboundLocalError and the call ends there.  On a hit the dataset
\* is opened and never closed.
remote_outcome(d, fs, dsv, include_units) ==
    LET desired_file == construct_filename(d)
    IN  IF desired_file \notin fs
        THEN [ file |-> desired_file, url |-> catalog_url(d),
               log |-> <<"catalog", "warn", "raise">>, handle |-> "none",
               data |-> NoData, result |-> "raised" ]
        ELSE LET p == Process(dsv, include_units)
             IN  [ file |-> desired_file, url |-> catalog_url(d),
                   log |-> <<"catalog", "open">> \o p.log, handle |-> "open",
                   data |-> p.data, result |-> "data" ]

\* open_local_file without the try/except around the open
local_outcome_no_except(d, fs, dsv, include_units) ==
    LET path == local_file(d)
    IN  IF path \notin fs
        THEN [ file |-> construct_filename(d), url |-> path,
               log |-> <<"open_failed", "raise">>, handle |-> "none",
               data |-> NoData, result |-> "raised" ]
        ELSE LET p == Process(dsv, include_units)
             IN  [ file |-> construct_filename(d), url |-> path,
                   log |-> <<"open", "close">> \o p.log, handle |-> "closed",
                   data |-> p.data, result |-> "data" ]

\* open_local_file(d, main_path, include_units) where the paths fs exist
\* below main_path and the file, if there, holds dsv.  The dataset is
\* closed inside the try, right after it is opened and before extraction.
local_outcome(d, fs, dsv, include_units) ==
    LET path == local_file(d)
    IN  IF path \notin fs
        THEN [ file |-> construct_filename(d), url |-> path,
               log |-> <<"open_failed", "diag">>, handle |-> "none",
               data |-> NoData, result |-> "None" ]
        ELSE LET p == Process(dsv, include_units)
             IN  [ file |-> construct_filename(d), url |-> path,
                   log |-> <<"open", "close">> \o p.log, handle |-> "closed",
                   data |-> p.data, result |-> "data" ]

\* requested dates of the calls: the first, the fifteenth and the last day
\* of every month of 2024
SampleDates ==
    { d \in Dates : d.year = 2024
                    /\ d.day \in {1, 15, DaysInMonth(d.year, d.month)} }

\* contents of the stored file: dX missing or 100 at each cell, uniform dY
\* and dY_v1p4, kilometres, two days between the time bounds
SampleDatasets ==
    { d \in Datasets :
        /\ d.units.dX = "km" /\ d.units.dY = "km"
        /\ d.time_bnds = <<0, 2 * SecondsPerDay>>
        /\ \A c \in Cells : d.dX[c] \in {NaN, F(100)} /\ d.dY[c] = F(-100)
        /\ "dY_v1p4" \in d.variables => \A c \in Cells : d.dY_v1p4[c] = F(100) }

Init ==
    /\ date \in SampleDates
    /\ ds \in SampleDatasets
    /\ op = "none"
    /\ file = ""
    /\ url = ""
    /\ files = {}
    /\ handle = "none"
    /\ log = <<>>
    /\ data = NoData
    /\ result = "pending"

\* open_remote_file(date, include_units)
OpenRemoteFile ==
    /\ op = "none"
    /\ \E fs \in SUBSET {construct_filename(date),
                         construct_filename(AddDays(date, -1))},
          include_units \in BOOLEAN :
          LET o == remote_outcome(date, fs, ds, include_units)
          IN  /\ op' = "open_remote_file"
              /\ files' = fs
              /\ file' = o.file
              /\ url' = o.url
              /\ log' = o.log
              /\ handle' = o.handle
              /\ data' = o.data
              /\ result' = o.result
    /\ UNCHANGED <<date, ds>>

\* open_local_file(date, main_path, include_units)
OpenLocalFile ==
    /\ op = "none"
    /\ \E fs \in SUBSET {local_file(date), local_file(AddDays(date, -1))},
          include_units \in BOOLEAN :
          LET o == local_outcome(date, fs, ds, include_units)
          IN  /\ op' = "open_local_file"
              /\ files' = fs
              /\ file' = o.file
              /\ url' = o.url
              /\ log' = o.log
              /\ handle' = o.handle
              /\ data' = o.data
              /\ result' = o.result
    /\ UNCHANGED <<date, ds>>

Next == OpenRemoteFile \/ OpenLocalFile

Spec == Init /\ [][Next]_vars

(***************************************************************************)
(* Claims about the two calls (Spec).                                      *)
(***************************************************************************)
\* e occurs in the log
Logged(e) == \E i \in 1..Len(log) : log[i] = e

\* e occurs in the log and every f in the log comes after it
Before(e, f) ==
    \E i \in 1..Len(log) :
        /\ log[i] = e
        /\ \A j \in 1..Len(log) : log[j] = f => i < j

\* C4 as stated: when the resolved filename is absent from the catalog's
\* file list, a warning is emitted and processing continues: the dataset
\* open and the extraction are still reached and the call is not aborted
C4_AsStated ==
    (op = "open_remote_file" /\ file \notin files) =>
        /\ Logged("warn")
        /\ Logged("open") /\ Logged("extract")
        /\ result # "raised"

\* C4 amended: when the resolved filename is absent from the catalog's file
\* list, open_remote_file emits the warning and the call then aborts with
\* an exception at the dataset open (the file reference was never
\* assigned): nothing is opened, extraction and velocity derivation are not
\* reached, and nothing is returned
C4_WarnThenRaise ==
    (op = "open_remote_file" /\ file \notin files) =>
        /\ Logged("warn")
        /\ Before("warn", "raise")
        /\ result = "raised"
        /\ ~Logged("open") /\ ~Logged("extract") /\ ~Logged("estimate")
        /\ handle = "none"
        /\ data = NoData

\* open_remote_file ran against a catalog that lists other files only
C4_Witness ==
    /\ op = "open_remote_file"
    /\ file \notin files
    /\ files # {}
    /\ Logged("warn")

\* C5: when the file resolved for the date does not exist under main_path,
\* open_local_file prints a diagnostic and returns None without raising,
\* and neither extraction nor velocity derivation runs; when the file
\* opens, the result is never None
C5_LocalMiss ==
    op = "open_local_file" =>
        IF url \notin files
        THEN /\ Logged("diag")
             /\ result = "None"
             /\ ~Logged("raise")
             /\ ~Logged("extract") /\ ~Logged("estimate")
             /\ data = NoData
        ELSE /\ Logged("open")
             /\ result # "None"
             /\ data # NoData

\* open_local_file ran for a date whose file does not exist while another
\* file does
C5_Witness ==
    /\ op = "open_local_file"
    /\ url \notin files
    /\ files # {}
    /\ result = "None"

\* C6: in every call the handle follows open -> fields read by extraction
\* -> close: it is never closed before extract_data_from_ds has read the
\* fields, and it has been closed by the time the call returns
C6_OpenReadClose ==
    (op \in {"open_remote_file", "open_local_file"} /\ Logged("open")) =>
        /\ Before("open", "extract")
        /\ Before("extract", "close")
        /\ result = "data" => handle = "closed"

====
